---------------------------- MODULE Spec2Model ----------------------------
(***************************************************************************)
(* rk3399 chipset power sequencing (power/rk3399.c) as a state machine.    *)
(*                                                                         *)
(* The chipset task runs power_handle_state() in a loop.  Steady states    *)
(* are handled in one step on a snapshot of the input signals; transient   *)
(* states are split at every suspension point (msleep, signal wait), where *)
(* the input signals may change and other tasks (power button hook,        *)
(* deferred force_shutdown, external chipset_force_shutdown callers, lid)  *)
(* may run.                                                                *)
(***************************************************************************)
EXTENDS Integers, Sequences, FiniteSets

VARIABLES
    seq_version,         \* CONFIG_CHIPSET_POWER_SEQ_VERSION of the build
    state,               \* the chipset task's current enum power_state
    pc,                  \* position of the chipset task inside the handler
    op_i,                \* power_seq_run: index i (1-based) of the table op
    sleep_remain,        \* MSLEEP_CHECK_ABORTED_SUSPEND: sleep_remain
    msec,                \* MSLEEP_CHECK_ABORTED_SUSPEND: its argument
    nap_log,             \* this expansion: each msleep's length, then 0 for
                         \* each evaluation of the abort test
    msleep_ms,           \* the argument of the plain msleep() the task is
                         \* blocked in, 0 when in none
    tries,               \* POWER_G3S5: tries
    polls,               \* POWER_G3S5: calls of charge_prevent_power_on made
    forcing_shutdown,    \* static int forcing_shutdown
    sys_reset_asserted,  \* static int sys_reset_asserted
    in_signals,          \* power_get_signals(): set of asserted inputs
    wait_rv,             \* result of the last power_wait_signals[_timeout]
    writes,              \* gpio_set_level calls of the current invocation
    notified,            \* hook_notify calls of the current invocation
    sleep_mask_ap_run,   \* SLEEP_MASK_AP_RUN set (low-power idle disabled)
    power_button,        \* power_button_is_pressed()
    deferred,            \* force_shutdown_data: armed delay, -1 when idle
    want_g3_exit,        \* chipset_exit_hard_off() request
    resume_seen,         \* run signal was raised during a sleep of POWER_S0S3
    last                 \* the latest power_handle_state call and its result

vars == << seq_version, state, pc, op_i, sleep_remain, msec, nap_log,
           msleep_ms, tries,
           polls,
           forcing_shutdown, sys_reset_asserted, in_signals, wait_rv, writes,
           notified, sleep_mask_ap_run, power_button, deferred, want_g3_exit,
           resume_seen, last >>

----------------------------------------------------------------------------
(* Program constants *)

CHARGER_INITIALIZED_TRIES == 40
CHARGER_INITIALIZED_DELAY_MS == 100
SYS_RST_RELEASE_MS == 10
SLEEP_INTERVAL_MS == 5
FORCED_SHUTDOWN_DELAY == 8000000
SUSPEND_WINDOW_MS == 20

VERSIONS == {0, 1, 2}

SteadyStates == {"G3", "S5", "S3", "S0"}
TransientStates == {"G3S5", "S5S3", "S3S0", "S0S3", "S3S5", "S5G3"}

----------------------------------------------------------------------------
(* Input signal masks *)

IN_SUSPEND_DEASSERTED == {"SUSPEND_DEASSERTED"}
IN_PGOOD_AP == {"AP_PWR_GOOD"}
IN_PGOOD_SYS == {"SYS_PWR_GOOD"}

IN_PGOOD_S3 ==
    IF seq_version = 2 THEN {"PP1250_S3_PWR_GOOD"} ELSE {"PP5000_PWR_GOOD"}

IN_PGOOD_S0 ==
    IF seq_version = 2
    THEN IN_PGOOD_S3 \cup {"PP900_S0_PWR_GOOD"} \cup IN_PGOOD_AP
    ELSE IN_PGOOD_S3 \cup IN_PGOOD_AP \cup IN_PGOOD_SYS

IN_ALL_S0 == IN_PGOOD_S0 \cup IN_SUSPEND_DEASSERTED

\* The input signals the board of this sequencing version has.
POWER_SIGNALS == IN_ALL_S0

power_has_signals(want) == want \subseteq in_signals

----------------------------------------------------------------------------
(* Power sequence tables *)

Op(s, l, d) == [signal |-> s, level |-> l, delay |-> d]

s5s3_power_seq ==
    IF seq_version = 2
    THEN << Op("PP900_S3_EN", 1, 2),
            Op("SYS_RST_L", 1, 0),
            Op("PP3300_S3_EN", 1, 2),
            Op("PP1800_S3_EN", 1, 2),
            Op("PP1250_S3_EN", 1, 2) >>
    ELSE << Op("PPVAR_LOGIC_EN", 1, 0),
            Op("PP900_AP_EN", 1, 0),
            Op("PP900_PCIE_EN", 1, 2) >>
         \o (IF seq_version = 0
             THEN << Op("PP900_PMU_EN", 1, 0),
                     Op("PP900_PLL_EN", 1, 0) >>
             ELSE << >>)
         \o << Op("PP900_USB_EN", 1, 2),
               Op("SYS_RST_L", 0, 0),
               Op("PP1800_PMU_EN_L", 0, 2),
               Op("LPDDR_PWR_EN", 1, 2),
               Op("PP1800_USB_EN_L", 0, 2),
               Op("PP3300_USB_EN_L", 0, 0),
               Op("PP5000_EN", 1, 0),
               Op("PP3300_TRACKPAD_EN_L", 0, 1),
               Op("PP1800_LID_EN_L", 0, 0),
               Op("PP1800_SIXAXIS_EN_L", 0, 2),
               Op("PP1800_SENSOR_EN_L", 0, 0) >>

s3s0_power_seq ==
    IF seq_version = 2
    THEN << Op("PP900_S0_EN", 1, 2),
            Op("PP1800_USB_EN", 1, 2),
            Op("PP3300_S0_EN", 1, 2),
            Op("AP_CORE_EN", 1, 2),
            Op("PP1800_S0_EN", 1, 0) >>
    ELSE << Op("PPVAR_CLOGIC_EN", 1, 2),
            Op("PP900_DDRPLL_EN", 1, 2),
            Op("PP1800_AP_AVDD_EN_L", 0, 2),
            Op("AP_CORE_EN", 1, 2),
            Op("PP1800_S0_EN_L", 0, 2),
            Op("PP3300_S0_EN_L", 0, 0) >>

s0s3_power_seq ==
    IF seq_version = 2
    THEN << Op("PP1800_S0_EN", 0, 1),
            Op("AP_CORE_EN", 0, 20),
            Op("PP3300_S0_EN", 0, 20),
            Op("PP1800_USB_EN", 0, 1),
            Op("PP900_S0_EN", 0, 1) >>
    ELSE << Op("PP3300_S0_EN_L", 1, 20),
            Op("PP1800_S0_EN_L", 1, 1),
            Op("AP_CORE_EN", 0, 20),
            Op("PP1800_AP_AVDD_EN_L", 1, 1),
            Op("PP900_DDRPLL_EN", 0, 1),
            Op("PPVAR_CLOGIC_EN", 0, 0) >>

s3s5_power_seq ==
    IF seq_version = 2
    THEN << Op("PP1250_S3_EN", 0, 2),
            Op("PP1800_S3_EN", 0, 2),
            Op("PP3300_S3_EN", 0, 2),
            Op("PP900_S3_EN", 0, 0) >>
    ELSE << Op("PP1800_SENSOR_EN_L", 1, 0),
            Op("PP1800_SIXAXIS_EN_L", 1, 0),
            Op("PP1800_LID_EN_L", 1, 0),
            Op("PP3300_TRACKPAD_EN_L", 1, 0),
            Op("PP5000_EN", 0, 0),
            Op("PP3300_USB_EN_L", 1, 20),
            Op("PP1800_USB_EN_L", 1, 10),
            Op("LPDDR_PWR_EN", 0, 20),
            Op("PP1800_PMU_EN_L", 1, 2) >>
         \o (IF seq_version = 0
             THEN << Op("PP900_PLL_EN", 0, 0),
                     Op("PP900_PMU_EN", 0, 0) >>
             ELSE << >>)
         \o << Op("PP900_USB_EN", 0, 6),
               Op("PP900_PCIE_EN", 0, 0),
               Op("PP900_AP_EN", 0, 0),
               Op("PPVAR_LOGIC_EN", 0, 0) >>

\* Mutant of power_seq_ops: POWER_S0S3 runs the S3->S5 table.
power_seq_ops_WrongTable(st) ==
    CASE st = "S5S3" -> s5s3_power_seq
      [] st = "S3S0" -> s3s0_power_seq
      [] st = "S0S3" -> s3s5_power_seq
      [] st = "S3S5" -> s3s5_power_seq
      [] OTHER -> << >>

\* The table power_handle_state(st) passes to power_seq_run.
power_seq_ops(st) ==
    CASE st = "S5S3" -> s5s3_power_seq
      [] st = "S3S0" -> s3s0_power_seq
      [] st = "S0S3" -> s0s3_power_seq
      [] st = "S3S5" -> s3s5_power_seq
      [] OTHER -> << >>

\* The (rail, level) pairs of a table, in table order.
TableWrites(t) == [k \in 1..Len(t) |-> << t[k].signal, t[k].level >>]

----------------------------------------------------------------------------
(* Collaborators of the chipset task *)

\* power_wait_signals / power_wait_signals_timeout: the results the wait can
\* end with when the task resumes.  It succeeds once every wanted signal is
\* asserted and otherwise ends by its timeout.
power_wait_signals(want) ==
    IF want \subseteq in_signals THEN {"EC_SUCCESS"} ELSE {"EC_ERROR_TIMEOUT"}

\* hook_call_deferred(&force_shutdown_data, us): the one slot of the
\* deferred force_shutdown after the call; a negative delay cancels, any other
\* delay replaces what was pending.  -1 stands for "nothing pending".
hook_call_deferred(us) == IF us < 0 THEN -1 ELSE us

\* chipset_in_state(CHIPSET_STATE_ANY_OFF)
chipset_in_state_any_off ==
    state \in {"G3", "G3S5", "S5G3", "S5", "S5S3", "S3S5"}

\* chipset_exit_hard_off(): the request is taken only in G3 and S5->G3.
chipset_exit_hard_off == state \in {"G3", "S5G3"} \/ want_g3_exit

\* A record of one power_handle_state call: the state passed, the state
\* returned ("pending" until it returns), the charger's last answers
\* (G3->S5) and the parity of the number of calls made so far.  Before the
\* first call it holds what power_chipset_init was given (st = "init").
Call(st, ret) ==
    [st |-> st, ret |-> ret, prevent |-> FALSE, want |-> FALSE,
     jumped |-> FALSE, ap_off |-> FALSE, n |-> 1 - last.n]

----------------------------------------------------------------------------
(* Initial state: the chipset task has not run power_chipset_init yet *)

Init ==
    /\ seq_version \in VERSIONS
    /\ state = "G3"
    /\ pc = "init"
    /\ op_i = 0
    /\ sleep_remain = 0
    /\ msec = 0
    /\ nap_log = << >>
    /\ msleep_ms = 0
    /\ tries = 0
    /\ polls = 0
    /\ forcing_shutdown = FALSE
    /\ sys_reset_asserted = FALSE
    /\ in_signals \in SUBSET POWER_SIGNALS
    /\ wait_rv = "none"
    /\ writes = << >>
    /\ notified = << >>
    /\ sleep_mask_ap_run = FALSE
    /\ power_button = FALSE
    /\ deferred = -1
    /\ want_g3_exit = FALSE
    /\ resume_seen = FALSE
    /\ last = [st |-> "none", ret |-> "none", prevent |-> FALSE,
               want |-> FALSE, jumped |-> FALSE, ap_off |-> FALSE,
               n |-> 0]

\* What every power_handle_state call starts from: nothing written, nothing
\* notified, no wait made.
NewCall(rv) ==
    /\ writes' = << >>
    /\ notified' = << >>
    /\ resume_seen' = FALSE
    /\ wait_rv' = rv
    /\ op_i' = 0
    /\ sleep_remain' = 0
    /\ msec' = 0
    /\ nap_log' = << >>
    /\ msleep_ms' = 0
    /\ tries' = 0
    /\ polls' = 0

\* A steady-state call that returns r without suspending.
SteadyReturn(r) ==
    /\ state' = r
    /\ pc' = "idle"
    /\ last' = Call(state, r)

\* The return of a call that was split at suspension points.
Return(r) ==
    /\ state' = r
    /\ pc' = "idle"
    /\ last' = [last EXCEPT !.ret = r]

----------------------------------------------------------------------------
(* power_chipset_init *)

\* Mutant of power_chipset_init: a warm jump is taken for S0 without reading
\* the signals.
power_chipset_init_NoSignalCheck(jumped, ap_off) ==
    /\ pc = "init"
    /\ pc' = "idle"
    /\ last' = [last EXCEPT !.st = "init", !.jumped = jumped,
                            !.ap_off = ap_off]
    /\ IF jumped
       THEN IF TRUE
            THEN /\ sleep_mask_ap_run' = TRUE
                 /\ state' = "S0"
                 /\ want_g3_exit' = want_g3_exit
            ELSE /\ state' = "G3"
                 /\ UNCHANGED << sleep_mask_ap_run, want_g3_exit >>
       ELSE /\ state' = "G3"
            /\ want_g3_exit' = IF ~ap_off THEN chipset_exit_hard_off
                                          ELSE want_g3_exit
            /\ UNCHANGED sleep_mask_ap_run
    /\ UNCHANGED << seq_version, op_i, sleep_remain, msec, nap_log, msleep_ms,
                    tries,
                    polls,
                    forcing_shutdown, sys_reset_asserted, in_signals, wait_rv,
                    writes, notified, power_button, deferred, resume_seen >>

\* system_jumped_to_this_image() and RESET_FLAG_AP_OFF are the inputs.
power_chipset_init(jumped, ap_off) ==
    /\ pc = "init"
    /\ pc' = "idle"
    /\ last' = [last EXCEPT !.st = "init", !.jumped = jumped,
                            !.ap_off = ap_off]
    /\ IF jumped
       THEN IF IN_ALL_S0 \subseteq in_signals
            THEN /\ sleep_mask_ap_run' = TRUE
                 /\ state' = "S0"
                 /\ want_g3_exit' = want_g3_exit
            ELSE /\ state' = "G3"
                 /\ UNCHANGED << sleep_mask_ap_run, want_g3_exit >>
       ELSE /\ state' = "G3"
            /\ want_g3_exit' = IF ~ap_off THEN chipset_exit_hard_off
                                          ELSE want_g3_exit
            /\ UNCHANGED sleep_mask_ap_run
    /\ UNCHANGED << seq_version, op_i, sleep_remain, msec, nap_log, msleep_ms,
                    tries,
                    polls,
                    forcing_shutdown, sys_reset_asserted, in_signals, wait_rv,
                    writes, notified, power_button, deferred, resume_seen >>

ChipsetInit == \E jumped \in BOOLEAN, ap_off \in BOOLEAN :
                   power_chipset_init(jumped, ap_off)

----------------------------------------------------------------------------
(* power_handle_state: steady states *)

\* Mutant of HandleS5Ret: the held power button, which is no input of the
\* steady states, decides as well.
HandleS5Ret_HiddenInput ==
    IF forcing_shutdown \/ power_button THEN "S5G3" ELSE "S5S3"

\* case POWER_S5
HandleS5Ret == IF forcing_shutdown THEN "S5G3" ELSE "S5S3"

\* Mutant of HandleS3Ret: the run signal is tested before forcing_shutdown.
HandleS3Ret_RunFirst ==
    IF ~power_has_signals(IN_PGOOD_S3)
    THEN "S3S5"
    ELSE IF IN_SUSPEND_DEASSERTED \subseteq in_signals
         THEN "S3S0"
         ELSE IF forcing_shutdown THEN "S3S5" ELSE "S3"

\* Mutant of HandleS3Ret: the S3 power-good test is left out.
HandleS3Ret_NoPgood ==
    IF forcing_shutdown
    THEN "S3S5"
    ELSE IF IN_SUSPEND_DEASSERTED \subseteq in_signals THEN "S3S0" ELSE "S3"

\* case POWER_S3; "S3" is the fall-through to `return state`
HandleS3Ret ==
    IF ~power_has_signals(IN_PGOOD_S3) \/ forcing_shutdown
    THEN "S3S5"
    ELSE IF IN_SUSPEND_DEASSERTED \subseteq in_signals THEN "S3S0" ELSE "S3"

\* Mutant of S0ExitCondition: the run signal is not looked at.
S0ExitCondition_NoRun ==
    ~power_has_signals(IN_PGOOD_S3) \/ forcing_shutdown

\* case POWER_S0: the exit condition, tested on entry and again after the
\* debounce wait
S0ExitCondition ==
    \/ ~power_has_signals(IN_PGOOD_S3)
    \/ forcing_shutdown
    \/ ~(IN_SUSPEND_DEASSERTED \subseteq in_signals)

\* Steady states run on the chipset task between two calls.
UnchangedBySteady ==
    UNCHANGED << seq_version, forcing_shutdown, sys_reset_asserted,
                 in_signals, sleep_mask_ap_run, power_button, deferred,
                 want_g3_exit >>

HandleG3 ==
    /\ pc = "idle" /\ state = "G3"
    /\ SteadyReturn("G3")
    /\ NewCall("none")
    /\ UnchangedBySteady

HandleS5 ==
    /\ pc = "idle" /\ state = "S5"
    /\ SteadyReturn(HandleS5Ret)
    /\ NewCall("none")
    /\ UnchangedBySteady

HandleS3 ==
    /\ pc = "idle" /\ state = "S3"
    /\ SteadyReturn(HandleS3Ret)
    /\ NewCall("none")
    /\ UnchangedBySteady

HandleS0 ==
    /\ pc = "idle" /\ state = "S0"
    /\ IF S0ExitCondition
       THEN SteadyReturn("S0S3") /\ NewCall("none")
       ELSE IF seq_version = 2
            THEN SteadyReturn("S0") /\ NewCall("none")
            ELSE IF power_has_signals(IN_PGOOD_AP \cup IN_PGOOD_SYS)
                 THEN \* the wait returns at once; the re-check reads the
                      \* same inputs
                      SteadyReturn("S0") /\ NewCall("EC_SUCCESS")
                 ELSE /\ pc' = "s0_debounce"
                      /\ state' = state
                      /\ last' = Call(state, "pending")
                      /\ NewCall("none")
    /\ UnchangedBySteady

\* The debounce wait of POWER_S0 ends (sequencing versions 0 and 1).
HandleS0Debounced ==
    /\ pc = "s0_debounce"
    /\ \E rv \in power_wait_signals(IN_PGOOD_AP \cup IN_PGOOD_SYS) :
          /\ wait_rv' = rv
          /\ IF rv = "EC_ERROR_TIMEOUT"
             THEN Return("S0S3")
             ELSE IF S0ExitCondition THEN Return("S0S3") ELSE Return("S0")
    /\ UNCHANGED << writes, notified, resume_seen, op_i, sleep_remain, msec,
                    nap_log, msleep_ms,
                    tries, polls >>
    /\ UnchangedBySteady

\* chipset task loop: in G3 a pending exit request starts the power-up.
CommonG3Exit ==
    /\ pc = "idle" /\ state = "G3" /\ want_g3_exit
    /\ state' = "G3S5"
    /\ want_g3_exit' = FALSE
    /\ UNCHANGED << seq_version, pc, op_i, sleep_remain, msec, nap_log,
                    msleep_ms, tries,
                    polls,
                    forcing_shutdown, sys_reset_asserted, in_signals, wait_rv,
                    writes, notified, sleep_mask_ap_run, power_button,
                    deferred, resume_seen, last >>

----------------------------------------------------------------------------
(* power_handle_state: transient states *)

\* What a step of the chipset task inside a transient state leaves alone.
UnchangedByTask ==
    UNCHANGED << seq_version, in_signals, power_button, want_g3_exit >>

\* Mutant of G3S5Forcing: forcing_shutdown is not cleared.
G3S5Forcing_Kept == forcing_shutdown

\* case POWER_G3S5: `forcing_shutdown = 0`
G3S5Forcing == FALSE

\* Mutant of RetryAllowed: `<=` for `<`, one retry too many.
RetryAllowed_OffByOne(t) == t <= CHARGER_INITIALIZED_TRIES

\* case POWER_G3S5: the `tries++ < CHARGER_INITIALIZED_TRIES` test
RetryAllowed(t) == t < CHARGER_INITIALIZED_TRIES

\* case POWER_G3S5: `charge_want_shutdown() || tries > CHARGER_INITIALIZED_TRIES`
PowerUpInhibited(want, t) == want \/ t > CHARGER_INITIALIZED_TRIES

HandleG3S5 ==
    /\ pc = "idle" /\ state = "G3S5"
    /\ forcing_shutdown' = G3S5Forcing
    /\ pc' = "g3s5_poll"
    /\ last' = Call(state, "pending")
    /\ NewCall("none")
    /\ UNCHANGED << state, sys_reset_asserted, sleep_mask_ap_run, deferred >>
    /\ UnchangedByTask

\* One evaluation of the while condition, with the charger's answers, then
\* either the msleep of the loop body or the rest of the case.
G3S5Poll(prevent, want) ==
    /\ pc = "g3s5_poll"
    /\ polls' = polls + 1
    /\ IF prevent /\ RetryAllowed(tries)
       THEN /\ tries' = tries + 1
            /\ pc' = "g3s5_sleep"
            /\ msleep_ms' = CHARGER_INITIALIZED_DELAY_MS
            /\ UNCHANGED << state, last, forcing_shutdown >>
       ELSE /\ tries' = IF prevent THEN tries + 1 ELSE tries
            /\ IF PowerUpInhibited(want, tries')
               THEN /\ forcing_shutdown' = TRUE
                    /\ state' = "G3"
               ELSE /\ forcing_shutdown' = forcing_shutdown
                    /\ state' = "S5"
            /\ pc' = "idle"
            /\ last' = [last EXCEPT !.ret = state', !.prevent = prevent,
                                    !.want = want]
            /\ msleep_ms' = 0
    /\ UNCHANGED << op_i, sleep_remain, msec, nap_log, sys_reset_asserted,
                    wait_rv, writes,
                    notified, sleep_mask_ap_run, deferred, resume_seen >>
    /\ UnchangedByTask

HandleG3S5Poll == \E prevent \in BOOLEAN, want \in BOOLEAN :
                      G3S5Poll(prevent, want)

\* msleep(CHARGER_INITIALIZED_DELAY_MS) ends.
HandleG3S5Wake ==
    /\ pc = "g3s5_sleep"
    /\ pc' = "g3s5_poll"
    /\ msleep_ms' = 0
    /\ UNCHANGED << state, op_i, sleep_remain, msec, nap_log, tries, polls,
                    forcing_shutdown,
                    sys_reset_asserted, wait_rv, writes, notified,
                    sleep_mask_ap_run, deferred, resume_seen, last >>
    /\ UnchangedByTask

\* Mutant of SuspendAborted: the test is made only once the whole delay
\* has been slept.
SuspendAborted_AfterDelay ==
    /\ sleep_remain <= SLEEP_INTERVAL_MS
    /\ ~forcing_shutdown /\ IN_SUSPEND_DEASSERTED \subseteq in_signals

\* MSLEEP_CHECK_ABORTED_SUSPEND: the test made after each msleep
SuspendAborted ==
    ~forcing_shutdown /\ IN_SUSPEND_DEASSERTED \subseteq in_signals

\* power_seq_run: the gpio_set_level call of one table entry
GpioWrite(op) == << op.signal, op.level >>

\* Mutant of NextOp: a table entry is skipped.
NextOp_Skip(i) == i + 2

\* power_seq_run: `i++`
NextOp(i) == i + 1

\* Entry of a transient state that runs a table: the hook called before the
\* rails change (if any), then power_seq_run or the first abort-checked sleep.
SeqEntry(st, hooks, firstpc, remain) ==
    /\ pc = "idle" /\ state = st
    /\ pc' = firstpc
    /\ op_i' = IF firstpc = "seq_run" THEN 1 ELSE 0
    /\ sleep_remain' = remain
    /\ msec' = remain
    /\ nap_log' = << >>
    /\ msleep_ms' = 0
    /\ last' = Call(state, "pending")
    /\ writes' = << >>
    /\ notified' = hooks
    /\ resume_seen' = FALSE
    /\ wait_rv' = "none"
    /\ tries' = 0
    /\ polls' = 0
    /\ UNCHANGED << state, forcing_shutdown, sys_reset_asserted,
                    sleep_mask_ap_run, deferred >>
    /\ UnchangedByTask

HandleS5S3 == SeqEntry("S5S3", << >>, "seq_run", 0)

HandleS3S0 == SeqEntry("S3S0", << >>, "seq_run", 0)

HandleS0S3 == SeqEntry("S0S3", << "HOOK_CHIPSET_SUSPEND" >>, "s0s3_nap",
                       SUSPEND_WINDOW_MS)

HandleS3S5 == SeqEntry("S3S5", << "HOOK_CHIPSET_SHUTDOWN" >>, "seq_run", 0)

\* One iteration of the for loop of power_seq_run, up to its sleep.
PowerSeqStep ==
    /\ pc = "seq_run"
    /\ op_i <= Len(power_seq_ops(state))
    /\ LET op == power_seq_ops(state)[op_i] IN
          /\ writes' = Append(writes, GpioWrite(op))
          /\ IF op.delay = 0
             THEN /\ op_i' = NextOp(op_i)
                  /\ UNCHANGED << pc, sleep_remain, msec, nap_log, msleep_ms,
                                  msleep_ms >>
             ELSE IF state = "S0S3"
                  THEN /\ pc' = "seq_nap"
                       /\ sleep_remain' = op.delay
                       /\ msec' = op.delay
                       /\ nap_log' = << >>
                       /\ op_i' = op_i
                       /\ msleep_ms' = msleep_ms
                  ELSE /\ pc' = "seq_sleep"
                       /\ msleep_ms' = op.delay
                       /\ UNCHANGED << op_i, sleep_remain, msec, nap_log >>
    /\ UNCHANGED << state, tries, polls, forcing_shutdown, sys_reset_asserted,
                    wait_rv, notified, sleep_mask_ap_run, deferred,
                    resume_seen, last >>
    /\ UnchangedByTask

\* msleep(power_seq_ops[i].delay) ends (tables other than s0s3_power_seq).
PowerSeqWake ==
    /\ pc = "seq_sleep"
    /\ pc' = "seq_run"
    /\ op_i' = NextOp(op_i)
    /\ msleep_ms' = 0
    /\ UNCHANGED << state, sleep_remain, msec, nap_log, tries, polls,
                    forcing_shutdown,
                    sys_reset_asserted, wait_rv, writes, notified,
                    sleep_mask_ap_run, deferred, resume_seen, last >>
    /\ UnchangedByTask

\* Mutant of NapLength: every msleep is a whole interval.
NapLength_WholeInterval == SLEEP_INTERVAL_MS

\* MSLEEP_CHECK_ABORTED_SUSPEND: MIN(sleep_remain, SLEEP_INTERVAL_MS)
NapLength ==
    IF sleep_remain < SLEEP_INTERVAL_MS THEN sleep_remain
                                        ELSE SLEEP_INTERVAL_MS

\* MSLEEP_CHECK_ABORTED_SUSPEND: one msleep(MIN(sleep_remain, 5)) ends; the
\* macro returns POWER_S3S0 from the function it is expanded in, sleeps
\* again, or falls out of its loop.
SuspendNapWake ==
    /\ pc \in {"s0s3_nap", "seq_nap"}
    /\ nap_log' = nap_log \o << NapLength, 0 >>
    /\ sleep_remain' = sleep_remain - SLEEP_INTERVAL_MS
    /\ msec' = msec
    /\ msleep_ms' = msleep_ms
    /\ IF SuspendAborted
       THEN /\ Return("S3S0")
            /\ op_i' = op_i
       ELSE /\ UNCHANGED << state, last >>
            /\ IF sleep_remain' > 0
               THEN UNCHANGED << pc, op_i >>
               ELSE /\ pc' = "seq_run"
                    /\ op_i' = IF pc = "s0s3_nap" THEN 1 ELSE NextOp(op_i)
    /\ UNCHANGED << tries, polls, forcing_shutdown, sys_reset_asserted,
                    wait_rv, writes, notified, sleep_mask_ap_run, deferred,
                    resume_seen >>
    /\ UnchangedByTask

\* power_seq_run has returned 0 to the case that called it.
SeqReturned(st) ==
    /\ pc = "seq_run" /\ state = st
    /\ op_i > Len(power_seq_ops(st))

\* case POWER_S5S3 after power_seq_run, up to power_wait_signals
S5S3SeqDone ==
    /\ SeqReturned("S5S3")
    /\ sys_reset_asserted' = TRUE
    /\ pc' = "s5s3_wait"
    /\ UNCHANGED << state, op_i, sleep_remain, msec, nap_log, msleep_ms,
                    tries, polls,
                    forcing_shutdown,
                    wait_rv, writes, notified, sleep_mask_ap_run, deferred,
                    resume_seen, last >>
    /\ UnchangedByTask

\* Mutant of S5S3Waited: HOOK_CHIPSET_STARTUP is notified whatever the wait
\* returned.
S5S3Waited_HookAlways ==
    /\ pc = "s5s3_wait"
    /\ \E rv \in power_wait_signals(IN_PGOOD_S3) :
          /\ wait_rv' = rv
          /\ IF rv # "EC_SUCCESS"
             THEN /\ forcing_shutdown' = TRUE
                  /\ notified' = Append(notified, "HOOK_CHIPSET_STARTUP")
                  /\ Return("S3S5")
             ELSE /\ forcing_shutdown' = forcing_shutdown
                  /\ notified' = Append(notified, "HOOK_CHIPSET_STARTUP")
                  /\ Return("S3")
    /\ UNCHANGED << op_i, sleep_remain, msec, nap_log, msleep_ms, tries, polls,
                    sys_reset_asserted,
                    writes, sleep_mask_ap_run, deferred, resume_seen >>
    /\ UnchangedByTask

\* case POWER_S5S3 from the return of power_wait_signals(IN_PGOOD_S3)
S5S3Waited ==
    /\ pc = "s5s3_wait"
    /\ \E rv \in power_wait_signals(IN_PGOOD_S3) :
          /\ wait_rv' = rv
          /\ IF rv # "EC_SUCCESS"
             THEN /\ forcing_shutdown' = TRUE
                  /\ notified' = notified
                  /\ Return("S3S5")
             ELSE /\ forcing_shutdown' = forcing_shutdown
                  /\ notified' = Append(notified, "HOOK_CHIPSET_STARTUP")
                  /\ Return("S3")
    /\ UNCHANGED << op_i, sleep_remain, msec, nap_log, msleep_ms, tries, polls,
                    sys_reset_asserted,
                    writes, sleep_mask_ap_run, deferred, resume_seen >>
    /\ UnchangedByTask

\* case POWER_S3S0 after power_seq_run: `if (sys_reset_asserted)`, up to
\* msleep(10) or power_wait_signals
S3S0SeqDone ==
    /\ SeqReturned("S3S0")
    /\ pc' = IF sys_reset_asserted THEN "s3s0_rst_sleep" ELSE "s3s0_wait"
    /\ msleep_ms' = IF sys_reset_asserted THEN SYS_RST_RELEASE_MS ELSE 0
    /\ UNCHANGED << state, op_i, sleep_remain, msec, nap_log, tries, polls,
                    forcing_shutdown,
                    sys_reset_asserted, wait_rv, writes, notified,
                    sleep_mask_ap_run, deferred, resume_seen, last >>
    /\ UnchangedByTask

\* Mutant of S3S0ReleaseReset: sys_reset_asserted is not cleared.
S3S0ReleaseReset_KeepFlag ==
    /\ pc = "s3s0_rst_sleep"
    /\ writes' = Append(writes, << "SYS_RST_L", 1 >>)
    /\ sys_reset_asserted' = sys_reset_asserted
    /\ pc' = "s3s0_wait"
    /\ msleep_ms' = 0
    /\ UNCHANGED << state, op_i, sleep_remain, msec, nap_log, tries, polls,
                    forcing_shutdown,
                    wait_rv, notified, sleep_mask_ap_run, deferred,
                    resume_seen, last >>
    /\ UnchangedByTask

\* case POWER_S3S0: msleep(10) ends; SYS_RST is released
S3S0ReleaseReset ==
    /\ pc = "s3s0_rst_sleep"
    /\ writes' = Append(writes, << "SYS_RST_L", 1 >>)
    /\ sys_reset_asserted' = FALSE
    /\ pc' = "s3s0_wait"
    /\ msleep_ms' = 0
    /\ UNCHANGED << state, op_i, sleep_remain, msec, nap_log, tries, polls,
                    forcing_shutdown,
                    wait_rv, notified, sleep_mask_ap_run, deferred,
                    resume_seen, last >>
    /\ UnchangedByTask

\* Mutant of S3S0WaitFailRet: the failed resume goes on to S0.
S3S0WaitFailRet_Advance == "S0"

\* case POWER_S3S0: the state returned when power_wait_signals fails
S3S0WaitFailRet == "S3S0"

\* case POWER_S3S0 from the return of power_wait_signals(IN_PGOOD_S0)
S3S0Waited ==
    /\ pc = "s3s0_wait"
    /\ \E rv \in power_wait_signals(IN_PGOOD_S0) :
          /\ wait_rv' = rv
          /\ IF rv # "EC_SUCCESS"
             THEN /\ forcing_shutdown' = TRUE
                  /\ UNCHANGED << notified, sleep_mask_ap_run >>
                  /\ Return(S3S0WaitFailRet)
             ELSE /\ forcing_shutdown' = forcing_shutdown
                  /\ notified' = Append(notified, "HOOK_CHIPSET_RESUME")
                  /\ sleep_mask_ap_run' = TRUE
                  /\ Return("S0")
    /\ UNCHANGED << op_i, sleep_remain, msec, nap_log, msleep_ms, tries, polls,
                    sys_reset_asserted,
                    writes, deferred, resume_seen >>
    /\ UnchangedByTask

\* Mutant of S0S3SeqDone: the deferred force_shutdown is armed with delay 0
\* and forcing_shutdown is left to it.
S0S3SeqDone_ArmZero ==
    /\ SeqReturned("S0S3")
    /\ sleep_mask_ap_run' = FALSE
    /\ IF power_button
       THEN /\ forcing_shutdown' = forcing_shutdown
            /\ deferred' = 0
       ELSE UNCHANGED << forcing_shutdown, deferred >>
    /\ Return("S3")
    /\ UNCHANGED << op_i, sleep_remain, msec, nap_log, msleep_ms, tries, polls,
                    sys_reset_asserted,
                    wait_rv, writes, notified, resume_seen >>
    /\ UnchangedByTask

\* Mutant of S0S3SeqDone: enable_sleep(SLEEP_MASK_AP_RUN) is not called.
S0S3SeqDone_NoEnableSleep ==
    /\ SeqReturned("S0S3")
    /\ sleep_mask_ap_run' = sleep_mask_ap_run
    /\ IF power_button
       THEN /\ forcing_shutdown' = TRUE
            /\ deferred' = hook_call_deferred(-1)
       ELSE UNCHANGED << forcing_shutdown, deferred >>
    /\ Return("S3")
    /\ UNCHANGED << op_i, sleep_remain, msec, nap_log, msleep_ms, tries, polls,
                    sys_reset_asserted,
                    wait_rv, writes, notified, resume_seen >>
    /\ UnchangedByTask

\* case POWER_S0S3 after power_seq_run returned 0
S0S3SeqDone ==
    /\ SeqReturned("S0S3")
    /\ sleep_mask_ap_run' = FALSE
    /\ IF power_button
       THEN /\ forcing_shutdown' = TRUE
            /\ deferred' = hook_call_deferred(-1)
       ELSE UNCHANGED << forcing_shutdown, deferred >>
    /\ Return("S3")
    /\ UNCHANGED << op_i, sleep_remain, msec, nap_log, msleep_ms, tries, polls,
                    sys_reset_asserted,
                    wait_rv, writes, notified, resume_seen >>
    /\ UnchangedByTask

\* case POWER_S3S5 after power_seq_run
S3S5SeqDone ==
    /\ SeqReturned("S3S5")
    /\ Return("S5")
    /\ UNCHANGED << op_i, sleep_remain, msec, nap_log, msleep_ms, tries, polls,
                    forcing_shutdown,
                    sys_reset_asserted, wait_rv, writes, notified,
                    sleep_mask_ap_run, deferred, resume_seen >>
    /\ UnchangedByTask

\* case POWER_S5G3
HandleS5G3 ==
    /\ pc = "idle" /\ state = "S5G3"
    /\ state' = "G3"
    /\ pc' = "idle"
    /\ last' = Call(state, "G3")
    /\ NewCall("none")
    /\ UNCHANGED << forcing_shutdown, sys_reset_asserted, sleep_mask_ap_run,
                    deferred >>
    /\ UnchangedByTask

----------------------------------------------------------------------------
(* Interrupts and the other tasks *)

UnchangedByOthers ==
    UNCHANGED << seq_version, state, pc, op_i, sleep_remain, msec, nap_log,
                 msleep_ms,
                 tries, polls,
                 sys_reset_asserted, wait_rv, writes, notified,
                 sleep_mask_ap_run, last >>

\* An input signal changes level (power signal interrupt).
SignalChange(s) ==
    /\ pc # "init"
    /\ in_signals' = IF s \in in_signals THEN in_signals \ {s}
                                         ELSE in_signals \cup {s}
    /\ resume_seen' = (resume_seen \/ (/\ s = "SUSPEND_DEASSERTED"
                                       /\ s \notin in_signals
                                       /\ state = "S0S3"
                                       /\ pc \in {"s0s3_nap", "seq_nap"}))
    /\ UNCHANGED << forcing_shutdown, power_button, deferred, want_g3_exit >>
    /\ UnchangedByOthers

PowerSignalInterrupt == \E s \in POWER_SIGNALS : SignalChange(s)

\* chipset_force_shutdown() called from another task.
chipset_force_shutdown ==
    /\ pc # "init"
    /\ forcing_shutdown' = TRUE
    /\ UNCHANGED << in_signals, power_button, deferred, want_g3_exit,
                    resume_seen >>
    /\ UnchangedByOthers

\* The deferred force_shutdown() runs.
force_shutdown ==
    /\ deferred >= 0
    /\ deferred' = -1
    /\ forcing_shutdown' = TRUE
    /\ UNCHANGED << in_signals, power_button, want_g3_exit, resume_seen >>
    /\ UnchangedByOthers

\* Mutant of power_button_changed: the release does not cancel.
power_button_changed_NoCancel(pressed) ==
    /\ pc # "init"
    /\ power_button # pressed
    /\ power_button' = pressed
    /\ IF pressed
       THEN /\ want_g3_exit' = IF chipset_in_state_any_off
                                THEN chipset_exit_hard_off ELSE want_g3_exit
            /\ deferred' = hook_call_deferred(FORCED_SHUTDOWN_DELAY)
       ELSE /\ deferred' = deferred
            /\ UNCHANGED want_g3_exit
    /\ UNCHANGED << in_signals, forcing_shutdown, resume_seen >>
    /\ UnchangedByOthers

\* power_button_changed() after the button changed to `pressed`.
power_button_changed(pressed) ==
    /\ pc # "init"
    /\ power_button # pressed
    /\ power_button' = pressed
    /\ IF pressed
       THEN /\ want_g3_exit' = IF chipset_in_state_any_off
                                THEN chipset_exit_hard_off ELSE want_g3_exit
            /\ deferred' = hook_call_deferred(FORCED_SHUTDOWN_DELAY)
       ELSE /\ deferred' = hook_call_deferred(-1)
            /\ UNCHANGED want_g3_exit
    /\ UNCHANGED << in_signals, forcing_shutdown, resume_seen >>
    /\ UnchangedByOthers

PowerButtonPress == power_button_changed(TRUE)

PowerButtonRelease == power_button_changed(FALSE)

\* lid_changed() with the lid open.
lid_changed ==
    /\ pc # "init"
    /\ chipset_in_state_any_off
    /\ want_g3_exit' = chipset_exit_hard_off
    /\ UNCHANGED << in_signals, forcing_shutdown, power_button, deferred,
                    resume_seen >>
    /\ UnchangedByOthers

----------------------------------------------------------------------------
(* The system *)

ChipsetTask ==
    \/ ChipsetInit
    \/ HandleG3
    \/ CommonG3Exit
    \/ HandleS5
    \/ HandleS3
    \/ HandleS0
    \/ HandleS0Debounced
    \/ HandleG3S5
    \/ HandleG3S5Poll
    \/ HandleG3S5Wake
    \/ HandleS5S3
    \/ HandleS3S0
    \/ HandleS0S3
    \/ HandleS3S5
    \/ HandleS5G3
    \/ PowerSeqStep
    \/ PowerSeqWake
    \/ SuspendNapWake
    \/ S5S3SeqDone
    \/ S5S3Waited
    \/ S3S0SeqDone
    \/ S3S0ReleaseReset
    \/ S3S0Waited
    \/ S0S3SeqDone
    \/ S3S5SeqDone

Next ==
    \/ ChipsetTask
    \/ PowerSignalInterrupt
    \/ chipset_force_shutdown
    \/ force_shutdown
    \/ PowerButtonPress
    \/ PowerButtonRelease
    \/ lid_changed

Spec == Init /\ [][Next]_vars

\* The chipset task is never starved: every sleep and every signal wait it
\* makes ends (each wait has a timeout), and it is called again after each
\* return.
SpecFair == Init /\ [][Next]_vars /\ WF_vars(ChipsetTask)

----------------------------------------------------------------------------
(* The round trip: the board runs in S0 (entered by a warm jump) with power *)
(* good throughout; the only requests are a long press of the power button  *)
(* in S0 and power-on requests; the charger is ready within the retry       *)
(* budget; the AP keeps the run signal asserted while it is powered and not *)
(* being shut down.                                                         *)

InitRoundTrip ==
    /\ seq_version \in VERSIONS
    /\ state = "S0"
    /\ pc = "idle"
    /\ op_i = 0
    /\ sleep_remain = 0
    /\ msec = 0
    /\ nap_log = << >>
    /\ msleep_ms = 0
    /\ tries = 0
    /\ polls = 0
    /\ forcing_shutdown = FALSE
    /\ sys_reset_asserted = FALSE
    /\ in_signals = IN_ALL_S0
    /\ wait_rv = "none"
    /\ writes = << >>
    /\ notified = << >>
    /\ sleep_mask_ap_run = TRUE
    /\ power_button = FALSE
    /\ deferred = -1
    /\ want_g3_exit = FALSE
    /\ resume_seen = FALSE
    /\ last = [st |-> "none", ret |-> "none", prevent |-> FALSE,
               want |-> FALSE, jumped |-> FALSE, ap_off |-> FALSE,
               n |-> 0]

\* The charger gate stops preventing power-on before the retries run out and
\* does not ask for a shutdown.
ChargerReadyPoll ==
    \E prevent \in (IF tries < CHARGER_INITIALIZED_TRIES THEN BOOLEAN
                                                         ELSE {FALSE}) :
        G3S5Poll(prevent, FALSE)

\* The AP changes the run signal, but not while it runs undisturbed.
RunSignalChange ==
    /\ forcing_shutdown \/ state \in {"G3", "G3S5", "S5", "S5S3", "S3"}
    /\ SignalChange("SUSPEND_DEASSERTED")

\* The power button has been held for FORCED_SHUTDOWN_DELAY in S0.
LongPress == state = "S0" /\ force_shutdown

NextRoundTrip ==
    \/ HandleG3
    \/ CommonG3Exit
    \/ HandleS5
    \/ HandleS3
    \/ HandleS0
    \/ HandleG3S5
    \/ ChargerReadyPoll
    \/ HandleG3S5Wake
    \/ HandleS5S3
    \/ HandleS3S0
    \/ HandleS0S3
    \/ HandleS3S5
    \/ HandleS5G3
    \/ PowerSeqStep
    \/ PowerSeqWake
    \/ SuspendNapWake
    \/ S5S3SeqDone
    \/ S5S3Waited
    \/ S3S0SeqDone
    \/ S3S0ReleaseReset
    \/ S3S0Waited
    \/ S0S3SeqDone
    \/ S3S5SeqDone
    \/ RunSignalChange
    \/ LongPress
    \/ PowerButtonPress
    \/ PowerButtonRelease
    \/ lid_changed

SpecRoundTrip == InitRoundTrip /\ [][NextRoundTrip]_vars

-----------------------------------------------------------------------------
(* The abort-checked sleep over every delay a table entry can hold *)

\* struct power_seq_op: `uint8_t delay`
MaxDelay == 255

\* case POWER_S0S3 has called the hook and expands
\* MSLEEP_CHECK_ABORTED_SUSPEND(msec), here for any msec of 1..MaxDelay; the
\* S0 power-good inputs are present and the run signal is deasserted.
InitNap ==
    /\ seq_version \in VERSIONS
    /\ state = "S0S3"
    /\ pc = "s0s3_nap"
    /\ op_i = 0
    /\ msec \in 1..MaxDelay
    /\ sleep_remain = msec
    /\ nap_log = << >>
    /\ msleep_ms = 0
    /\ tries = 0
    /\ polls = 0
    /\ forcing_shutdown = FALSE
    /\ sys_reset_asserted = FALSE
    /\ in_signals = IN_PGOOD_S0
    /\ wait_rv = "none"
    /\ writes = << >>
    /\ notified = << "HOOK_CHIPSET_SUSPEND" >>
    /\ sleep_mask_ap_run = TRUE
    /\ power_button = FALSE
    /\ deferred = -1
    /\ want_g3_exit = FALSE
    /\ resume_seen = FALSE
    /\ last = [st |-> "S0S3", ret |-> "pending", prevent |-> FALSE,
               want |-> FALSE, jumped |-> FALSE, ap_off |-> FALSE,
               n |-> 1]

\* The AP raises or drops the run signal.
NapRunSignalChange == SignalChange("SUSPEND_DEASSERTED")

\* The sleep, then the S0->S3 table (whose own delays are slept the same
\* way) up to the return, while the run signal and forcing_shutdown change.
NextNap ==
    \/ SuspendNapWake
    \/ PowerSeqStep
    \/ S0S3SeqDone
    \/ NapRunSignalChange
    \/ chipset_force_shutdown

SpecNap == InitNap /\ [][NextNap]_vars

----------------------------------------------------------------------------
(* Properties *)

RunSignal == "SUSPEND_DEASSERTED" \in in_signals

PgoodS3 == IN_PGOOD_S3 \subseteq in_signals

\* A step that is a call of power_handle_state on the current state.
IsCall == pc = "idle" /\ last'.n # last.n

\* The latest call has returned.
Returned == last.ret \notin {"none", "pending"}

IsPrefix(p, q) == Len(p) <= Len(q) /\ p = SubSeq(q, 1, Len(p))

\* C1: with forcing_shutdown set, a call on a steady state never returns a
\* state that moves toward S0: S5 gives S5->G3, S3 gives S3->S5 (also when
\* the run signal is asserted), S0 gives S0->S3 and G3 gives G3.
C1_ForcedShutdownLeadsDown ==
    [][ (IsCall /\ state \in SteadyStates /\ forcing_shutdown)
          => /\ pc' = "idle"
             /\ state' = CASE state = "S5" -> "S5G3"
                            [] state = "S3" -> "S3S5"
                            [] state = "S0" -> "S0S3"
                            [] OTHER -> "G3" ]_vars

C1_Witness ==
    /\ state = "S3S5" /\ pc = "idle"
    /\ last.st = "S3" /\ last.ret = "S3S5"
    /\ forcing_shutdown /\ PgoodS3 /\ RunSignal

\* C2: a call on S3 returns S3->S5 if the S3 power-good mask is not fully
\* present or forcing_shutdown is set, otherwise S3->S0 if the run signal is
\* asserted, otherwise S3.
C2_S3Rules ==
    [][ (IsCall /\ state = "S3")
          => /\ pc' = "idle"
             /\ (~PgoodS3 \/ forcing_shutdown) => state' = "S3S5"
             /\ (PgoodS3 /\ ~forcing_shutdown /\ RunSignal)
                   => state' = "S3S0"
             /\ (PgoodS3 /\ ~forcing_shutdown /\ ~RunSignal)
                   => state' = "S3" ]_vars

C2_Witness ==
    /\ state = "S3S0" /\ pc = "idle"
    /\ last.st = "S3" /\ last.ret = "S3S0"
    /\ ~forcing_shutdown /\ PgoodS3 /\ RunSignal

\* C3: a call on S0 returns S0->S3 whenever S3 power-good is missing, or
\* forcing_shutdown is set, or the run signal is not asserted (on entry, or
\* when re-checked after the debounce wait); with every S0 input present and
\* forcing_shutdown clear it returns S0 with no rail write and no
\* notification.
C3_S0Rules ==
    [][ /\ (IsCall /\ state = "S0"
              /\ (~PgoodS3 \/ forcing_shutdown \/ ~RunSignal))
             => (state' = "S0S3" /\ pc' = "idle")
        /\ (pc = "s0_debounce" /\ pc' = "idle"
              /\ (~PgoodS3 \/ forcing_shutdown \/ ~RunSignal))
             => state' = "S0S3"
        /\ (IsCall /\ state = "S0"
              /\ IN_ALL_S0 \subseteq in_signals /\ ~forcing_shutdown)
             => /\ state' = "S0" /\ pc' = "idle"
                /\ writes' = << >> /\ notified' = << >>
                /\ sleep_mask_ap_run' = sleep_mask_ap_run ]_vars

C3_Witness ==
    /\ state = "S0" /\ pc = "idle"
    /\ last.st = "S0" /\ last.ret = "S0"
    /\ IN_ALL_S0 \subseteq in_signals /\ ~forcing_shutdown
    /\ writes = << >> /\ notified = << >>

\* C4 as stated: G3->S5 polls the charger gate at most
\* CHARGER_INITIALIZED_TRIES (40) times.
C4_AtMostTriesPolls ==
    last.st = "G3S5" => polls <= CHARGER_INITIALIZED_TRIES

\* C4, amended: G3->S5 first clears forcing_shutdown, then polls the charger
\* gate at most CHARGER_INITIALIZED_TRIES + 1 (41) times, sleeping once
\* after each of at most 40 polls that report prevent_power_on; it returns G3
\* with forcing_shutdown set if the 41st poll still reports prevent_power_on
\* or the charger wants shutdown, and otherwise returns S5 without touching
\* forcing_shutdown.
C4_ChargerGate ==
    [][ /\ (IsCall /\ state = "G3S5")
             => (~forcing_shutdown' /\ polls' = 0 /\ tries' = 0
                 /\ state' = "G3S5")
        /\ (pc = "g3s5_poll" /\ polls' # polls)
             => /\ polls' = polls + 1
                /\ polls' <= CHARGER_INITIALIZED_TRIES + 1
                /\ pc' \in {"g3s5_sleep", "idle"}
                /\ pc' = "g3s5_sleep"
                     => /\ tries' = polls'
                        /\ tries' <= CHARGER_INITIALIZED_TRIES
                        /\ forcing_shutdown' = forcing_shutdown
                /\ pc' = "idle"
                     => \/ /\ state' = "G3"
                           /\ forcing_shutdown'
                           /\ \/ last'.want
                              \/ /\ last'.prevent
                                 /\ polls' = CHARGER_INITIALIZED_TRIES + 1
                        \/ /\ state' = "S5"
                           /\ forcing_shutdown' = forcing_shutdown
                           /\ ~last'.want
                           /\ ~last'.prevent ]_vars

C4_Witness ==
    /\ last.st = "G3S5" /\ last.ret = "G3" /\ state = "G3"
    /\ polls = CHARGER_INITIALIZED_TRIES + 1
    /\ last.prevent /\ ~last.want
    /\ forcing_shutdown

\* Table entries applied so far by the power_seq_run in progress.
Applied == IF pc = "seq_run" THEN op_i - 1 ELSE op_i

\* C5: the (rail, level) writes of power_seq_run follow the table's literal
\* order, nothing reordered, skipped or repeated: while a table runs the
\* writes are the table's first entries; for S5->S3, S3->S0 and S3->S5 the
\* whole table has been written once power_seq_run returns (S3->S0 may add
\* the release of SYS_RST_L after it); for S0->S3 the writes are a prefix of
\* the table.
C5_TableOrder ==
    /\ pc \in {"seq_run", "seq_sleep", "seq_nap"}
         => /\ Applied \in 0..Len(power_seq_ops(last.st))
            /\ writes = SubSeq(TableWrites(power_seq_ops(last.st)),
                                1, Applied)
    /\ (/\ last.st \in {"S5S3", "S3S5"}
        /\ (pc = "s5s3_wait" \/ Returned))
         => writes = TableWrites(power_seq_ops(last.st))
    /\ (/\ last.st = "S3S0"
        /\ (pc \in {"s3s0_rst_sleep", "s3s0_wait"} \/ Returned))
         => \/ writes = TableWrites(s3s0_power_seq)
            \/ writes = Append(TableWrites(s3s0_power_seq),
                                << "SYS_RST_L", 1 >>)
    /\ last.st = "S0S3" => IsPrefix(writes, TableWrites(s0s3_power_seq))

C5_Witness ==
    /\ last.st = "S3S5" /\ last.ret = "S5"
    /\ seq_version = 0
    /\ Len(writes) = 15
    /\ writes = TableWrites(s3s5_power_seq)

\* C6 as stated: if the run signal is raised at any point while S0->S3
\* executes (here: during one of its sleeps), the call returns S3->S0.
C6_AnyReassertAborts ==
    (last.st = "S0S3" /\ Returned /\ resume_seen) => last.ret = "S3S0"

\* C6, amended: S0->S3 is aborted exactly when, at one of its checks (made
\* after each sleep interval of the initial 20 ms window and of every
\* non-zero step delay), the run signal is asserted and forcing_shutdown is
\* clear; the call then returns S3->S0 at once and applies no further table
\* step.  Otherwise that check lets the sequence go on.
C6_AbortAtCheck ==
    [][ (pc \in {"s0s3_nap", "seq_nap"} /\ sleep_remain' # sleep_remain)
          => IF RunSignal /\ ~forcing_shutdown
             THEN /\ state' = "S3S0" /\ pc' = "idle"
                  /\ last'.ret = "S3S0"
                  /\ writes' = writes
             ELSE /\ state' = "S0S3"
                  /\ pc' \in {"s0s3_nap", "seq_nap", "seq_run"}
                  /\ last'.ret = "pending" ]_vars

C6_Witness ==
    /\ last.st = "S0S3" /\ last.ret = "S3S0" /\ state = "S3S0"
    /\ resume_seen
    /\ Len(writes) \in 1..(Len(s0s3_power_seq) - 1)

\* C7: when S0->S3 is aborted during the post-delay of step k (k = 0: the
\* initial window), exactly the first k table entries have been written and
\* nothing else (no roll-back), low-power idle is still disabled, and the
\* state returned is S3->S0.
C7_AbortAfterKWrites ==
    (last.st = "S0S3" /\ last.ret = "S3S0")
      => /\ state = "S3S0" /\ pc = "idle"
         /\ op_i \in 0..Len(s0s3_power_seq)
         /\ op_i >= 1 => s0s3_power_seq[op_i].delay > 0
         /\ Len(writes) = op_i
         /\ writes = SubSeq(TableWrites(s0s3_power_seq), 1, op_i)
         /\ sleep_mask_ap_run

C7_Witness ==
    /\ last.st = "S0S3" /\ last.ret = "S3S0"
    /\ seq_version = 2
    /\ Len(s0s3_power_seq) = 5
    /\ writes = << << "PP1800_S0_EN", 0 >>, << "AP_CORE_EN", 0 >> >>
    /\ sleep_mask_ap_run

\* C8: in the round trip every change of state follows
\* S0 -> S0->S3 -> S3 -> S3->S5 -> S5 -> S5->G3 -> G3 (forced shutdown) and
\* G3 -> G3->S5 -> S5 -> S5->S3 -> S3 -> S3->S0 -> S0 (power-on), the way
\* down taken exactly while forcing_shutdown is set, and the machine is back
\* in S0 with forcing_shutdown and sys_reset_asserted both false.
C8_RoundTrip ==
    [][ state' # state
          => \/ state = "S0" /\ forcing_shutdown /\ state' = "S0S3"
             \/ state = "S0S3" /\ forcing_shutdown' /\ state' = "S3"
             \/ state = "S3" /\ forcing_shutdown /\ state' = "S3S5"
             \/ state = "S3S5" /\ forcing_shutdown' /\ state' = "S5"
             \/ state = "S5" /\ forcing_shutdown /\ state' = "S5G3"
             \/ state = "S5G3" /\ state' = "G3"
             \/ state = "G3" /\ state' = "G3S5"
             \/ state = "G3S5" /\ ~forcing_shutdown' /\ state' = "S5"
             \/ state = "S5" /\ ~forcing_shutdown /\ state' = "S5S3"
             \/ state = "S5S3" /\ ~forcing_shutdown' /\ state' = "S3"
             \/ state = "S3" /\ ~forcing_shutdown /\ state' = "S3S0"
             \/ /\ state = "S3S0" /\ state' = "S0"
                /\ ~forcing_shutdown' /\ ~sys_reset_asserted' ]_vars

C8_Witness ==
    /\ state = "S0" /\ pc = "idle"
    /\ last.st = "S3S0" /\ last.ret = "S0"
    /\ ~forcing_shutdown /\ ~sys_reset_asserted
    /\ IN_ALL_S0 \subseteq in_signals


\* C9: a failed power-good wait sets forcing_shutdown and returns without
\* the lifecycle notification: S5->S3 returns S3->S5 with no "chipset
\* started", S3->S0 returns S3->S0 with no "chipset resumed".
C9_WaitFailureForcesShutdown ==
    /\ (last.st = "S5S3" /\ Returned /\ wait_rv = "EC_ERROR_TIMEOUT")
         => /\ forcing_shutdown
            /\ notified = << >>
            /\ last.ret = "S3S5" /\ state = "S3S5"
    /\ (last.st = "S3S0" /\ Returned /\ wait_rv = "EC_ERROR_TIMEOUT")
         => /\ forcing_shutdown
            /\ notified = << >>
            /\ last.ret = "S3S0" /\ state = "S3S0"

C9_Witness ==
    /\ last.st = "S3S0" /\ last.ret = "S3S0"
    /\ wait_rv = "EC_ERROR_TIMEOUT"
    /\ forcing_shutdown /\ notified = << >>

\* C10: every call on a transient state returns a different state; no
\* transient state is returned as its own successor.
C10_TransientAdvances ==
    (last.st \in TransientStates /\ Returned) => last.ret # last.st

\* C11: once forcing_shutdown is set while the machine is out of G3 (and not
\* in the power-up step G3->S5 that clears it), the chipset task eventually
\* brings the machine to G3, whatever the power-good signals do.
C11_ForcedShutdownReachesG3 ==
    (forcing_shutdown /\ state \notin {"G3", "G3S5"}) ~> (state = "G3")

\* The next state of a steady state, computed from the state, the signals
\* and forcing_shutdown as they are now (a wait on signals that are missing
\* now times out).
SteadyNext ==
    CASE state = "G3" -> "G3"
      [] state = "S5" -> IF forcing_shutdown THEN "S5G3" ELSE "S5S3"
      [] state = "S3" -> IF ~PgoodS3 \/ forcing_shutdown THEN "S3S5"
                         ELSE IF RunSignal THEN "S3S0" ELSE "S3"
      [] state = "S0" -> IF ~PgoodS3 \/ forcing_shutdown \/ ~RunSignal
                         THEN "S0S3"
                         ELSE IF /\ seq_version # 2
                                 /\ ~((IN_PGOOD_AP \cup IN_PGOOD_SYS)
                                        \subseteq in_signals)
                              THEN "S0S3"
                              ELSE "S0"
      [] OTHER -> "none"

\* The call on S0 (versions 0 and 1) that has to wait for AP/SYS power-good.
S0MustDebounce ==
    /\ state = "S0" /\ seq_version # 2
    /\ PgoodS3 /\ ~forcing_shutdown /\ RunSignal
    /\ ~((IN_PGOOD_AP \cup IN_PGOOD_SYS) \subseteq in_signals)

\* C12 as stated: the result of a call on a steady state is a function of
\* the state, the signal snapshot and the flags at the call, and both flags
\* are left unchanged.  A call on S0 that enters the debounce wait was made
\* with AP or SYS power-good missing from the snapshot, for which that
\* function gives S0->S3.
C12_SnapshotDeterminesResult ==
    [][ /\ (IsCall /\ state \in SteadyStates /\ pc' = "idle")
             => /\ state' = SteadyNext
                /\ forcing_shutdown' = forcing_shutdown
                /\ sys_reset_asserted' = sys_reset_asserted
        /\ (pc = "s0_debounce" /\ pc' = "idle")
             => /\ state' = "S0S3"
                /\ forcing_shutdown' = forcing_shutdown
                /\ sys_reset_asserted' = sys_reset_asserted ]_vars

\* C12, amended: a call on G3, S5 or S3, and a call on S0 that does not
\* have to wait, returns the state that is a function of the state, the
\* signals and forcing_shutdown at the call; a call on S0 that waits for
\* AP/SYS power-good (versions 0 and 1) returns the state that is that same
\* function of the signals and forcing_shutdown as they are when the wait
\* ends.  No steady call writes forcing_shutdown or sys_reset_asserted, and
\* sys_reset_asserted has no influence.
C12_SteadyDeterminism ==
    [][ /\ (IsCall /\ state \in SteadyStates)
             => /\ forcing_shutdown' = forcing_shutdown
                /\ sys_reset_asserted' = sys_reset_asserted
                /\ IF S0MustDebounce
                   THEN pc' = "s0_debounce" /\ state' = "S0"
                   ELSE pc' = "idle" /\ state' = SteadyNext
        /\ (pc = "s0_debounce" /\ pc' = "idle")
             => /\ state' = SteadyNext
                /\ forcing_shutdown' = forcing_shutdown
                /\ sys_reset_asserted' = sys_reset_asserted ]_vars

\* The call on S0 was made with AP or SYS power-good missing, and while it
\* waits every S0 input is present again.
C12_Witness ==
    /\ pc = "s0_debounce" /\ state = "S0" /\ last.ret = "pending"
    /\ IN_ALL_S0 \subseteq in_signals /\ ~forcing_shutdown

\* The step that is power_chipset_init.
IsInit == pc = "init" /\ pc' = "idle"

\* C13: power_chipset_init returns S0 only when the image was warm-jumped
\* into and every S0 input (S0-level power-good and the run signal) is
\* present, and then low-power idle is disabled; in every other case it
\* returns G3, and it requests the exit from hard off exactly when the image
\* was not warm-jumped into and the AP-off reset flag is not set.
C13_InitContract ==
    [][ IsInit =>
          /\ state' \in {"S0", "G3"}
          /\ state' = "S0"
               <=> (last'.jumped
                    /\ (IN_PGOOD_S0 \cup IN_SUSPEND_DEASSERTED)
                          \subseteq in_signals)
          /\ state' = "S0" => sleep_mask_ap_run'
          /\ state' = "G3" => sleep_mask_ap_run' = sleep_mask_ap_run
          /\ want_g3_exit' <=> (~last'.jumped /\ ~last'.ap_off)
          /\ ~forcing_shutdown' /\ ~sys_reset_asserted' ]_vars

\* power_chipset_init found the AP already on after a warm jump.
C13_Witness ==
    /\ last.st = "init" /\ last.jumped /\ pc = "idle"
    /\ state = "S0" /\ sleep_mask_ap_run /\ ~want_g3_exit
    /\ IN_ALL_S0 \subseteq in_signals

\* The step in which S0->S3 returns after its whole table, with no abort.
S0S3Completes ==
    /\ state = "S0S3" /\ pc # "idle" /\ pc' = "idle"
    /\ last'.ret # "S3S0"

\* C14 as stated: S0->S3 completing with the power button held arms the
\* deferred shutdown with zero delay and returns S3.
C14_ArmsWithZeroDelay ==
    [][ (S0S3Completes /\ power_button)
          => (deferred' = 0 /\ state' = "S3") ]_vars

\* C14, amended: S0->S3 completing with the power button held sets
\* forcing_shutdown itself and cancels the deferred shutdown (nothing is left
\* pending), and returns S3; with the button not held it leaves
\* forcing_shutdown and the deferred shutdown untouched and returns S3.  In
\* both cases the whole table has been written.
C14_ButtonHeldAtS3 ==
    [][ S0S3Completes =>
          /\ state' = "S3" /\ last'.ret = "S3"
          /\ writes' = TableWrites(s0s3_power_seq)
          /\ IF power_button
             THEN forcing_shutdown' /\ deferred' = -1
             ELSE /\ forcing_shutdown' = forcing_shutdown
                  /\ deferred' = deferred ]_vars

\* S0->S3 has just returned S3 with the button held since before the forced
\* shutdown delay ran out.
C14_Witness ==
    /\ last.st = "S0S3" /\ last.ret = "S3" /\ state = "S3" /\ pc = "idle"
    /\ writes = TableWrites(s0s3_power_seq)
    /\ power_button /\ forcing_shutdown /\ deferred = -1

\* The step in which the deferred force_shutdown() runs: the pending call is
\* consumed while the button and the chipset task stay as they are.
DeferredFires ==
    /\ deferred >= 0 /\ deferred' = -1
    /\ power_button' = power_button /\ pc' = pc

TaskStep == pc' # pc \/ last' # last \/ state' # state

\* C16: forcing_shutdown and sys_reset_asserted change only in steps of the
\* chipset task; the button, lid, deferred-callback and requester steps leave
\* both flags as they are.
C16_FlagsWrittenByTaskOnly ==
    [][ (forcing_shutdown' # forcing_shutdown
         \/ sys_reset_asserted' # sys_reset_asserted) => TaskStep ]_vars

\* C17: when the machine has arrived in G3 (S5->G3 has returned G3),
\* forcing_shutdown is false.
C17_ClearedOnArrivalInG3 ==
    (state = "G3" /\ pc = "idle" /\ last.st = "S5G3" /\ last.ret = "G3")
      => ~forcing_shutdown

\* Every power-good bit that S0 requires is present.
PgoodS0 == IN_PGOOD_S0 \subseteq in_signals

\* C18: in S0, for every sequencing version, a call made with a power-good
\* bit required for S0 missing, and still missing when the call returns,
\* returns S0->S3; a call that waited for AP/SYS power-good returns S0 when
\* the bit is back and S3 power-good, forcing_shutdown clear and the run
\* signal still hold at the re-check, and S0->S3 when one of them changed.
C18_MissingPgoodLeavesS0 ==
    [][ /\ (IsCall /\ state = "S0" /\ ~PgoodS0 /\ pc' = "idle")
             => state' = "S0S3"
        /\ (pc = "s0_debounce" /\ pc' = "idle")
             => state' = IF PgoodS0 /\ ~forcing_shutdown /\ RunSignal
                         THEN "S0" ELSE "S0S3" ]_vars

\* ceil(d / SLEEP_INTERVAL_MS)
NapIntervals(d) == (d + SLEEP_INTERVAL_MS - 1) \div SLEEP_INTERVAL_MS

\* The number of msleep calls logged by the current expansion.
NapsDone == Len(nap_log) \div 2

RECURSIVE SumSeq(_)
SumSeq(q) == IF q = << >> THEN 0 ELSE Head(q) + SumSeq(Tail(q))

\* The latest expansion in S0->S3 fell out of its loop without aborting.
NapCompleted ==
    /\ last.st = "S0S3" /\ msec > 0
    /\ pc \notin {"s0s3_nap", "seq_nap"}
    /\ last.ret # "S3S0"

\* What C19 says of the log of one expansion.
NapLogRight ==
    /\ msec \in 0..MaxDelay
    /\ Len(nap_log) = 2 * NapsDone
    /\ NapsDone <= NapIntervals(msec)
    /\ \A k \in 1..NapsDone :
          LET remaining == msec - SLEEP_INTERVAL_MS * (k - 1) IN
             /\ remaining >= 1
             /\ nap_log[2 * k - 1] = IF remaining < SLEEP_INTERVAL_MS
                                     THEN remaining ELSE SLEEP_INTERVAL_MS
             /\ nap_log[2 * k] = 0
    /\ pc \in {"s0s3_nap", "seq_nap"}
         => (msec >= 1 /\ NapsDone < NapIntervals(msec))
    /\ NapCompleted
         => (NapsDone = NapIntervals(msec) /\ SumSeq(nap_log) = msec)

\* C19: the abort-checked sleep for a delay d of 1..255 ms makes
\* ceil(d / 5) msleep calls, the k-th of min(d - 5 (k - 1), 5) ms, which
\* add up to d when nothing aborts; the abort test is evaluated once after
\* each msleep and never before the first (log: length, 0, length, 0, ...);
\* a table step with delay 0 makes no msleep and no test.
C19_NapIntervals ==
    [][ /\ NapLogRight /\ NapLogRight'
        /\ (/\ pc = "seq_run" /\ writes' # writes
            /\ power_seq_ops(state)[op_i].delay = 0)
             => (nap_log' = nap_log /\ pc' = "seq_run"
                 /\ last'.ret = "pending") ]_vars

\* A sleep of 7 ms was made as 5 ms and 2 ms, with the test after each.
C19_Witness ==
    /\ NapCompleted /\ msec = 7 /\ pc = "seq_run" /\ op_i = 1
    /\ nap_log = << 5, 0, 2, 0 >>

\* C20: HOOK_CHIPSET_SUSPEND and HOOK_CHIPSET_SHUTDOWN have been notified
\* at every point of an S0->S3 / S3->S5 invocation, so before its first rail
\* write; HOOK_CHIPSET_STARTUP and HOOK_CHIPSET_RESUME have been notified
\* only once the invocation has written its whole table, its power-good wait
\* has succeeded and it has returned S3 / S0; no other invocation notifies,
\* and none notifies twice.
C20_NotificationOrder ==
    /\ Len(notified) <= 1
    /\ last.st = "S0S3" => notified = << "HOOK_CHIPSET_SUSPEND" >>
    /\ last.st = "S3S5" => notified = << "HOOK_CHIPSET_SHUTDOWN" >>
    /\ last.st = "S5S3"
         => IF last.ret = "S3"
            THEN /\ notified = << "HOOK_CHIPSET_STARTUP" >>
                 /\ writes = TableWrites(s5s3_power_seq)
                 /\ wait_rv = "EC_SUCCESS" /\ pc = "idle"
            ELSE notified = << >>
    /\ last.st = "S3S0"
         => IF last.ret = "S0"
            THEN /\ notified = << "HOOK_CHIPSET_RESUME" >>
                 /\ IsPrefix(TableWrites(s3s0_power_seq), writes)
                 /\ wait_rv = "EC_SUCCESS" /\ pc = "idle"
            ELSE notified = << >>
    /\ last.st \notin {"S0S3", "S3S5", "S5S3", "S3S0"} => notified = << >>

\* S3->S5 is about to make its first rail write and the shutdown hook has
\* been notified.
C20_Witness ==
    /\ last.st = "S3S5" /\ last.ret = "pending"
    /\ pc = "seq_run" /\ op_i = 1 /\ writes = << >>
    /\ notified = << "HOOK_CHIPSET_SHUTDOWN" >>

\* The step in which power_seq_run returns to case POWER_S3S0.
S3S0TableDone ==
    /\ state = "S3S0" /\ pc = "seq_run"
    /\ pc' \notin {"seq_run", "seq_sleep"}

\* The step that writes SYS_RST_L = 1 (no table of S3->S0 holds that write).
ResetLineReleased ==
    /\ Len(writes') = Len(writes) + 1
    /\ writes'[Len(writes')] = << "SYS_RST_L", 1 >>

\* C21: sys_reset_asserted is set by every S5->S3 invocation once its table
\* has run, and stays set however that invocation ends; it is cleared only
\* by S3->S0, in the step that ends a 10 ms msleep made after the whole
\* S3->S0 table, writes SYS_RST_L = 1 and goes on to the S0 power-good wait;
\* an S3->S0 that finds the flag clear after its table goes straight to the
\* wait and never writes SYS_RST_L; in S0 the flag is false.
C21_SysResetLifecycle ==
    [][ /\ state = "S0" => ~sys_reset_asserted
        /\ (last.st = "S5S3" /\ pc \in {"s5s3_wait", "idle"})
             => sys_reset_asserted
        /\ (sys_reset_asserted /\ ~sys_reset_asserted')
             => /\ state = "S3S0" /\ last.st = "S3S0"
                /\ msleep_ms = 10
                /\ writes = TableWrites(s3s0_power_seq)
                /\ ResetLineReleased
                /\ pc' = "s3s0_wait" /\ wait_rv' = "none"
        /\ S3S0TableDone
             => /\ writes' = writes
                /\ sys_reset_asserted' = sys_reset_asserted
                /\ IF sys_reset_asserted
                   THEN msleep_ms' = 10 /\ pc' # "s3s0_wait"
                   ELSE msleep_ms' = 0 /\ pc' = "s3s0_wait"
        /\ (last'.st = "S3S0" /\ ResetLineReleased)
             => (sys_reset_asserted /\ ~sys_reset_asserted')
        /\ (last.st = "S3S0" /\ pc = "s3s0_wait")
             => ~sys_reset_asserted ]_vars

\* The first S3->S0 after an S5->S3 has released SYS_RST after its table and
\* reached S0.
C21_Witness ==
    /\ state = "S0" /\ pc = "idle"
    /\ last.st = "S3S0" /\ last.ret = "S0"
    /\ writes = Append(TableWrites(s3s0_power_seq), << "SYS_RST_L", 1 >>)
    /\ ~sys_reset_asserted

\* C22: low-power idle tracks the power state: whenever the state is S0,
\* SLEEP_MASK_AP_RUN is set (deep sleep disabled), whenever the state is S3,
\* S5 or G3 it is clear (deep sleep enabled), and an S0->S3 that was aborted
\* has left it set.
C22_IdleTracksState ==
    /\ state = "S0" => sleep_mask_ap_run
    /\ state \in {"S3", "S5", "G3"} => ~sleep_mask_ap_run
    /\ (last.st = "S0S3" /\ last.ret = "S3S0") => sleep_mask_ap_run

\* An S0->S3 was aborted after at least one rail write and deep sleep is
\* still disabled.
C22_Witness ==
    /\ state = "S3S0" /\ pc = "idle"
    /\ last.st = "S0S3" /\ last.ret = "S3S0" /\ writes # << >>
    /\ sleep_mask_ap_run

=============================================================================
